---------------------------- MODULE Spec2Model ----------------------------
(***************************************************************************)
(* WaveSketch measurement engine of Proyecto_IPD438 and its drivers.       *)
(*                                                                         *)
(* The per-bucket algorithms (COUNTING, TRANSFORMATION, COMPRESSION,       *)
(* RECONSTRUCTION) are transcribed from the step-by-step algorithm         *)
(* listing in COMPARISON_OFFLINE_VS_NS3.md; the table dimensions come from *)
(* Utility/parameter.h; the drivers from offline_evaluator.cpp,            *)
(* fattree_k4_replay.cc and the FlowMonitorAgent listing in run_sweep.sh.  *)
(* The Heavy/Light table that hosts the buckets (Wavelet/wavelet.h) is not *)
(* part of the available sources and is modelled from its description.    *)
(* The self-scheduling measurement agents are those of                     *)
(* fattree_benchmark.cc and fattree_ecn_clean.cc, the congestion recall    *)
(* that of fattree_k4_replay.cc.                                           *)
(***************************************************************************)
EXTENDS Integers, Sequences, FiniteSets, TLC

(***************************************************************************)
(* Bounds of the model.                                                    *)
(***************************************************************************)
\* window length in time units (the listing uses 8192 ns)
WindowSize == 1
\* cells of the approximation array A of one bucket
ApproxCells == 1
\* largest Top-K capacity explored
MaxK == 4
\* largest number of non-zero windows of a replayed curve
MaxSpikes == 2
\* flows 1..NumFlows
NumFlows == 2
\* slots of the HeavyPart table
HeavySlots == 1
\* rows of the LightPart grid
LightRows == 2
\* saturation value of a slot's vote counter
VoteMax == 3
\* votes a hit adds to the slot of a stored flow (HIT_RATIO is 8)
HitRatio == 2
\* largest MEMORY_KB the sweep builds a binary for
MaxMemoryKB == 300
\* count(), flush() and rebuild() calls of the event-driven specification
MaxOps == 5
\* the event-driven specification draws timestamps from 0..EventTimes-1
EventTimes == 3

(***************************************************************************)
(* Program constants (Utility/parameter.h).                                *)
(***************************************************************************)
MEMORY_KB == 256
FULL_WIDTH == 256
FULL_HEIGHT == 3

\* cells per bucket and bytes of the whole table, for a build with
\* MEMORY_KB = m
FULL_DEPTH_RoundUp(m) ==
    (m * 1024 + FULL_WIDTH * FULL_HEIGHT * 4 - 1)
        \div (FULL_WIDTH * FULL_HEIGHT * 4)
FULL_DEPTH(m) == (m * 1024) \div (FULL_WIDTH * FULL_HEIGHT * 4)
MEMORY_Requested(m) == m * 1024
MEMORY(m) == FULL_WIDTH * FULL_HEIGHT * FULL_DEPTH(m) * 4

VARIABLES
    L,          \* number of decomposition levels of every bucket
    K,          \* capacity of every bucket's Top-K store D
    memoryKB,   \* MEMORY_KB the binary was built with
    requestKB,  \* memory budget the driver was asked for at run time
    heavy,      \* HeavyPart: slot -> [key, vote, bkt]
    light,      \* LightPart: row -> bucket of the (single) column
    truth,      \* driver ground truth: flow -> window -> count
    nEvents,    \* count() calls issued so far
    nReads,     \* flush() and rebuild() calls issued so far
    lastOp,     \* the last scheme operation and its argument
    admitted,   \* flows that have ever been given a HeavyPart slot
    out,        \* per-window series a rebuild has just returned, as the
                \* driver files it
    now,        \* simulation clock: timestamp of the last packet
    curve,      \* replay driver: the per-window counts to replay
    base,       \* replay driver: timestamp of window 0
    feedZeros,  \* replay driver: whether empty windows are replayed too
    fedN,       \* replay driver: windows replayed so far
    phase,      \* replay driver: position of the driver
    coeffs,     \* WaveSketchAgent: Haar coefficients of the analysed curve
    topK,       \* WaveSketchAgent: indices of the coefficients retained
    prevRun,    \* evaluation over K: K, series and D of the previous run
    windowUs,   \* width of a window, in timestamp units
    algorithm,  \* packet monitor: the algorithm name given at start-up
    resultRows, \* packet monitor: result rows written so far
    m_lastProcessedTimeUs, \* periodic agent: end of the analysed time
    pending,    \* simulator: due times of the scheduled CompressAndAnalyze
    analysed,   \* periodic agent: window -> number of runs that analysed it
    m_flowRates, \* buffer-based agent: flow -> vector of window counters
    mode,       \* offline evaluator: the input mode of the run
    input,      \* offline evaluator: packet timestamps in file order
    m_groundTruth, \* congestion tracker: window -> largest queue bytes
    m_windows,  \* flow-rate logger: window -> ECN marks
    metrics     \* flow-rate logger: what ComputeRecall last returned

vars == <<L, K, memoryKB, requestKB, windowUs, heavy, light, truth,
          nEvents, nReads, lastOp, admitted, out, now, curve, base,
          feedZeros, fedN, phase, coeffs, topK, prevRun, algorithm,
          resultRows, m_lastProcessedTimeUs, pending, analysed, m_flowRates,
          mode, input, m_groundTruth, m_windows, metrics>>

cfgVars == <<L, K, memoryKB, requestKB, windowUs>>
replayVars == <<curve, base, feedZeros, fedN, phase>>
agentVars == <<coeffs, topK>>

monitorVars == <<algorithm, resultRows>>
schedVars == <<m_lastProcessedTimeUs, pending, analysed, m_flowRates>>
feedVars == <<mode, input>>
recallVars == <<m_groundTruth, m_windows, metrics>>
extraVars == <<schedVars, feedVars, recallVars>>

\* MeasurementAgent before the first analysis is scheduled
SchedIdle ==
    /\ m_lastProcessedTimeUs = 0
    /\ pending = <<>>
    /\ analysed = <<>>
    /\ m_flowRates = <<>>

\* the evaluator run in its default input mode, nothing read yet
FeedIdle ==
    /\ mode = "windowed"
    /\ input = <<>>

\* default-constructed RecallMetrics and empty per-window maps
NoMetrics == [totalCongestionWindows |-> 0, capturedWindows |-> 0,
              recallNum |-> 0, recallDen |-> 1]

RecallIdle ==
    /\ m_groundTruth = <<>>
    /\ m_windows = <<>>
    /\ metrics = NoMetrics

ExtraInit == SchedIdle /\ FeedIdle /\ RecallIdle

\* no run of the evaluation has completed yet
NoRun == [K |-> 0, out |-> <<>>, D |-> <<>>]

Flows == 1..NumFlows
NoFlow == 0

Pow2(n) == 2 ^ n
Shr(x, n) == x \div Pow2(n)
Abs(x) == IF x < 0 THEN 0 - x ELSE x
Min2(a, b) == IF a < b THEN a ELSE b

\* C/C++ integer division: truncation towards zero
CDiv(a, b) == IF a >= 0 THEN a \div b ELSE 0 - ((0 - a) \div b)

\* windows one bucket can hold: n = |A| * 2^L
NumWindows == ApproxCells * Pow2(L)

(***************************************************************************)
(* Bucket                                                                  *)
(***************************************************************************)
EmptyBucket ==
    [w0  |-> 0,
     i   |-> 0,
     c   |-> 0,
     A   |-> [p \in 0..(ApproxCells - 1) |-> 0],
     det |-> [l \in 0..(L - 1) |-> [idx |-> 0, val |-> 0]],
     D   |-> <<>>,
     oob |-> FALSE]

\* (1/sqrt(2))^l * |val| compared without roots: squares, cross-multiplied
Heavier(d1, d2) ==
    d1.val * d1.val * Pow2(d2.lvl) > d2.val * d2.val * Pow2(d1.lvl)

\* D.min(): the entry of least weighted magnitude, the oldest one among equals
MinPos(D) ==
    CHOOSE p \in 1..Len(D) :
        \A q \in 1..Len(D) :
            /\ ~Heavier(D[p], D[q])
            /\ (~Heavier(D[q], D[p]) => p <= q)

RemoveAt_First(s, p) == Tail(s)
RemoveAt(s, p) == [j \in 1..(Len(s) - 1) |-> IF j < p THEN s[j] ELSE s[j + 1]]

Compression_NoEvict(b, l, detail) ==
    [b EXCEPT !.D = Append(@, [lvl |-> l, idx |-> detail.idx,
                               val |-> detail.val])]
Compression(b, l, detail) ==
    LET e == [lvl |-> l, idx |-> detail.idx, val |-> detail.val]
    IN  IF Len(b.D) < K
        THEN [b EXCEPT !.D = Append(@, e)]
        ELSE IF Heavier(e, b.D[MinPos(b.D)])
             THEN [b EXCEPT !.D = Append(RemoveAt(@, MinPos(@)), e)]
             ELSE b

RECURSIVE TransformLevels(_, _, _, _)
TransformLevels(b, i, c, l) ==
    IF l >= L THEN b
    ELSE LET pos_d == Shr(i, l + 1)
             b1 == IF pos_d > b.det[l].idx
                   THEN [Compression(b, l, b.det[l])
                            EXCEPT !.det[l] = [idx |-> pos_d, val |-> 0]]
                   ELSE b
             sign_d == Shr(i, l) % 2
             b2 == [b1 EXCEPT !.det[l].val =
                        IF sign_d = 0 THEN @ + c ELSE @ - c]
         IN  TransformLevels(b2, i, c, l + 1)

Transformation(b, i, c) ==
    LET pos_a == Shr(i, L)
        b1 == IF pos_a \in DOMAIN b.A
              THEN [b EXCEPT !.A[pos_a] = @ + c]
              ELSE [b EXCEPT !.oob = TRUE]
    IN  TransformLevels(b1, i, c, 0)

RECURSIVE FillEmpty(_, _, _)
FillEmpty(b, from, to) ==
    IF from > to THEN b
    ELSE FillEmpty(Transformation(b, from, 0), from + 1, to)

Counting_NoFill(b, wj, v) ==
    LET b0 == IF b.w0 = 0 THEN [b EXCEPT !.w0 = wj] ELSE b
        current_window_offset == CDiv(wj - b0.w0, windowUs)
    IN  IF current_window_offset = b0.i
        THEN [b0 EXCEPT !.c = @ + v]
        ELSE LET b1 == Transformation(b0, b0.i, b0.c)
             IN  [b1 EXCEPT !.c = v, !.i = current_window_offset]
Counting(b, wj, v) ==
    LET b0 == IF b.w0 = 0 THEN [b EXCEPT !.w0 = wj] ELSE b
        current_window_offset == CDiv(wj - b0.w0, windowUs)
    IN  IF current_window_offset = b0.i
        THEN [b0 EXCEPT !.c = @ + v]
        ELSE LET b1 == Transformation(b0, b0.i, b0.c)
                 b2 == FillEmpty(b1, b0.i + 1, current_window_offset - 1)
             IN  [b2 EXCEPT !.c = v, !.i = current_window_offset]

RECURSIVE CompressPending(_, _)
CompressPending(b, l) ==
    IF l >= L THEN b
    ELSE CompressPending(Compression(b, l, b.det[l]), l + 1)

\* step 1 of RECONSTRUCTION: close the open window and the pending details
Finalize(b) == CompressPending(Transformation(b, b.i, b.c), 0)

\* D.find(level, index): the stored detail, 0 when it was discarded
FindDetail(D, l, k) ==
    IF \E p \in 1..Len(D) : D[p].lvl = l /\ D[p].idx = k
    THEN D[CHOOSE p \in 1..Len(D) :
              /\ D[p].lvl = l /\ D[p].idx = k
              /\ \A q \in 1..(p - 1) : ~(D[q].lvl = l /\ D[q].idx = k)].val
    ELSE 0

\* one level of the inverse step: size cells become 2 * size cells
InverseStep(cur, size, D, l) ==
    [j \in 0..(2 * size - 1) |->
        LET k == j \div 2
            a_l_k == cur[k]
            d_l_k == FindDetail(D, l, k)
        IN  IF j % 2 = 0 THEN a_l_k + d_l_k ELSE a_l_k - d_l_k]

RECURSIVE InverseLevels(_, _, _, _)
InverseLevels(cur, size, D, l) ==
    IF l < 0 THEN cur
    ELSE InverseLevels(InverseStep(cur, size, D, l), 2 * size, D, l - 1)

\* steps 2-8 of RECONSTRUCTION, on a finalized bucket
Reconstruction(b) == InverseLevels(b.A, ApproxCells, b.D, L - 1)

(***************************************************************************)
(* Scheme: HeavyPart + LightPart around the buckets                        *)
(***************************************************************************)
EmptySlot == [key |-> NoFlow, vote |-> 0, bkt |-> EmptyBucket]

Residents == {heavy[s].key : s \in 1..HeavySlots} \ {NoFlow}

HeavySlotOf(f) ==
    IF \E s \in 1..HeavySlots : heavy[s].key = f
    THEN CHOOSE s \in 1..HeavySlots : heavy[s].key = f
    ELSE 0

TableFull == \A s \in 1..HeavySlots : heavy[s].key # NoFlow

FirstFree ==
    CHOOSE s \in 1..HeavySlots :
        /\ heavy[s].key = NoFlow
        /\ \A t \in 1..(s - 1) : heavy[t].key # NoFlow

\* the resident slot a non-resident flow contends with
ContendSlot(f) == ((f - 1) % HeavySlots) + 1

VoteUp_NoSat(v) == v + HitRatio
VoteUp(v) == Min2(v + HitRatio, VoteMax)

\* HeavyPart after count(f, ts, v)
HeavyCount_AlwaysEvict(f, ts, v) ==
    LET s == HeavySlotOf(f)
        t == ContendSlot(f)
        fresh == [key |-> f, vote |-> VoteUp(0),
                  bkt |-> Counting(EmptyBucket, ts, v)]
    IN  IF s # 0
        THEN [heavy EXCEPT ![s].vote = VoteUp(@),
                           ![s].bkt = Counting(@, ts, v)]
        ELSE IF ~TableFull
             THEN [heavy EXCEPT ![FirstFree] = fresh]
             ELSE [heavy EXCEPT ![t] = fresh]
HeavyCount(f, ts, v) ==
    LET s == HeavySlotOf(f)
        t == ContendSlot(f)
        fresh == [key |-> f, vote |-> VoteUp(0),
                  bkt |-> Counting(EmptyBucket, ts, v)]
    IN  IF s # 0
        THEN [heavy EXCEPT ![s].vote = VoteUp(@),
                           ![s].bkt = Counting(@, ts, v)]
        ELSE IF ~TableFull
             THEN [heavy EXCEPT ![FirstFree] = fresh]
             ELSE IF heavy[t].vote - 1 <= 0
                  THEN [heavy EXCEPT ![t] = fresh]
                  ELSE [heavy EXCEPT ![t].vote = @ - 1]

\* whether count(f, ..) leaves f outside the HeavyPart
GoesLight(f) ==
    /\ HeavySlotOf(f) = 0
    /\ TableFull
    /\ heavy[ContendSlot(f)].vote - 1 > 0

LightCount(f, ts, v) ==
    IF GoesLight(f)
    THEN [r \in 1..LightRows |-> Counting(light[r], ts, v)]
    ELSE light

\* windows the drivers look at
OutWindows == NumWindows + 1

\* the series of bucket b as the driver files it: the point of window k
\* carries timestamp w0 + k * WindowSize and the driver adds it to window
\* (timestamp - base) / window, base being the timestamp the driver gave
\* to its window 0
Series(b) ==
    LET rec == Reconstruction(b)
        off == (b.w0 - base) \div windowUs
    IN  [w \in 0..(OutWindows - 1) |->
            IF (w - off) \in DOMAIN rec THEN rec[w - off] ELSE 0]

RECURSIVE MinOver(_, _)
MinOver(f, n) == IF n = 1 THEN f[1] ELSE Min2(f[n], MinOver(f, n - 1))

\* row-wise minimum, window by window, of the LightPart rows' series
LightSeries(lt) ==
    LET rows == [r \in 1..LightRows |-> Series(lt[r])]
    IN  [w \in 0..(OutWindows - 1) |->
            MinOver([r \in 1..LightRows |-> rows[r][w]], LightRows)]

\* the series rebuild(f) yields, filed per window by the driver
RebuildSeries_NoKeyCheck(f, hv, lt) ==
    IF hv[ContendSlot(f)].key # NoFlow
    THEN Series(hv[ContendSlot(f)].bkt)
    ELSE LightSeries(lt)
RebuildSeries(f, hv, lt) ==
    IF \E s \in 1..HeavySlots : hv[s].key = f
    THEN Series(hv[CHOOSE s \in 1..HeavySlots : hv[s].key = f].bkt)
    ELSE LightSeries(lt)

HeavyFlush == [s \in 1..HeavySlots |->
                 IF heavy[s].key = NoFlow THEN heavy[s]
                 ELSE [heavy[s] EXCEPT !.bkt = Finalize(@)]]

LightFlush == [r \in 1..LightRows |-> Finalize(light[r])]

HeavyRebuild(f, hv) ==
    [s \in 1..HeavySlots |->
        IF hv[s].key = f /\ f # NoFlow
        THEN [hv[s] EXCEPT !.bkt = Finalize(@)]
        ELSE hv[s]]

LightRebuild(f, hv, lt) ==
    IF \E s \in 1..HeavySlots : hv[s].key = f
    THEN lt
    ELSE [r \in 1..LightRows |-> Finalize(lt[r])]

\* what rebuild(f) returns when issued on the scheme state (hv, lt)
RebuildResult(f, hv, lt) ==
    RebuildSeries(f, HeavyRebuild(f, hv), LightRebuild(f, hv, lt))

count(f, ts, v) ==
    /\ heavy' = HeavyCount(f, ts, v)
    /\ light' = LightCount(f, ts, v)
    /\ lastOp' = [op |-> "count", flow |-> f]
    /\ admitted' = IF GoesLight(f) THEN admitted ELSE admitted \cup {f}

flush ==
    /\ heavy' = HeavyFlush
    /\ light' = LightFlush
    /\ lastOp' = [op |-> "flush", flow |-> NoFlow]
    /\ UNCHANGED admitted

rebuild(f) ==
    /\ heavy' = HeavyRebuild(f, heavy)
    /\ light' = LightRebuild(f, heavy, light)
    /\ out' = RebuildResult(f, heavy, light)
    /\ lastOp' = [op |-> "rebuild", flow |-> f]
    /\ UNCHANGED admitted

(***************************************************************************)
(* Replay driver: a pre-aggregated curve of one flow is replayed window by *)
(* window, flushed and rebuilt (offline_evaluator.cpp, fattree_k4_replay)  *)
(***************************************************************************)
ReplayFlow == 1
ReplayLevels == {2, 3}
SpikeValues == {1, 5}
BaseTimes == {0, 1}

NonZero(cv) == {w \in DOMAIN cv : cv[w] # 0}

SparseCurves(n) ==
    {cv \in [0..(n - 1) -> SpikeValues \cup {0}] :
        Cardinality(NonZero(cv)) <= MaxSpikes}

ZeroSeries == [w \in 0..(OutWindows - 1) |-> 0]
ZeroTruth == [f \in Flows |-> [w \in 0..(OutWindows - 1) |-> 0]]
NoOp == [op |-> "none", flow |-> NoFlow]

SchemeInit ==
    /\ heavy = [s \in 1..HeavySlots |-> EmptySlot]
    /\ light = [r \in 1..LightRows |-> EmptyBucket]
    /\ lastOp = NoOp
    /\ admitted = {}
    /\ out = ZeroSeries
    /\ truth = ZeroTruth
    /\ nEvents = 0
    /\ nReads = 0

ReplayInit ==
    /\ L \in ReplayLevels
    /\ K \in 1..MaxK
    /\ memoryKB = MEMORY_KB
    /\ windowUs = WindowSize
    /\ requestKB = MEMORY_KB
    /\ coeffs = <<>>
    /\ topK = {}
    /\ prevRun = NoRun
    /\ algorithm = "wavesketch"
    /\ resultRows = 0
    /\ ExtraInit
    /\ SchemeInit
    /\ curve \in SparseCurves(NumWindows)
    /\ base \in BaseTimes
    /\ feedZeros \in BOOLEAN
    /\ fedN = 0
    /\ phase = "feed"
    /\ now = 0

\* ground truth kept by the drivers: flowData[flow][timestamp / window] += v
Record(f, ts, v) ==
    LET w == ts \div windowUs
    IN  IF w \in 0..(OutWindows - 1)
        THEN [truth EXCEPT ![f][w] = @ + v]
        ELSE truth

ReplayFeed ==
    /\ phase = "feed"
    /\ LET ts == fedN * windowUs + base
           v == curve[fedN]
       IN  IF v = 0 /\ ~feedZeros
           THEN UNCHANGED <<heavy, light, lastOp, admitted, truth, nEvents>>
           ELSE /\ count(ReplayFlow, ts, v)
                /\ truth' = Record(ReplayFlow, ts, v)
                /\ nEvents' = nEvents + 1
    /\ fedN' = fedN + 1
    /\ phase' = IF fedN + 1 = NumWindows THEN "fed" ELSE "feed"
    /\ UNCHANGED <<cfgVars, agentVars, prevRun, monitorVars, extraVars,
                   nReads, out, now, curve, base, feedZeros>>

ReplayFlush ==
    /\ phase = "fed"
    /\ flush
    /\ phase' = "flushed"
    /\ UNCHANGED <<cfgVars, agentVars, prevRun, monitorVars, extraVars, truth,
                   nEvents, nReads, out, now, curve, base, feedZeros, fedN>>

ReplayRebuild ==
    /\ phase \in {"fed", "flushed"}
    /\ rebuild(ReplayFlow)
    /\ phase' = IF phase = "flushed" THEN "done" ELSE "doneNoFlush"
    /\ UNCHANGED <<cfgVars, agentVars, prevRun, monitorVars, extraVars, truth,
                   nEvents, nReads, now, curve, base, feedZeros, fedN>>

ReplayNext == ReplayFeed \/ ReplayFlush \/ ReplayRebuild

ReplaySpec == ReplayInit /\ [][ReplayNext]_vars

(***************************************************************************)
(* Event-driven client: packets arrive at the simulation clock and are     *)
(* counted one by one (FlowMonitorAgent::OnPacketReceived); the scheme is  *)
(* flushed and rebuilt at any time.  Flow identifiers are opaque, so a     *)
(* trace is taken up to renaming: flows are numbered by first appearance.  *)
(***************************************************************************)
EngineLevels == {1, 2}
EngineK == {1, 2}
\* the clock stays within the span one bucket can process
\* (parameter.h: "one object can process data in MAX_LENGTH * TIMESCALE ns")
MaxNow == Min2(EventTimes, NumWindows * windowUs) - 1

Seen(f) == \E w \in DOMAIN truth[f] : truth[f][w] > 0

Init ==
    /\ L \in EngineLevels
    /\ K \in EngineK
    /\ memoryKB = MEMORY_KB
    /\ windowUs = WindowSize
    /\ requestKB = MEMORY_KB
    /\ coeffs = <<>>
    /\ topK = {}
    /\ prevRun = NoRun
    /\ algorithm = "wavesketch"
    /\ resultRows = 0
    /\ ExtraInit
    /\ SchemeInit
    /\ now = 0
    /\ curve = [w \in 0..(NumWindows - 1) |-> 0]
    /\ base = 0
    /\ feedZeros = FALSE
    /\ fedN = 0
    /\ phase = "events"

\* a packet of flow f arrives at a timestamp not before the last one
Count(f) ==
    /\ nEvents + nReads < MaxOps
    /\ \A g \in 1..(f - 1) : Seen(g)
    /\ \E ts \in now..MaxNow :
          /\ count(f, ts, 1)
          /\ truth' = Record(f, ts, 1)
          /\ now' = ts
    /\ nEvents' = nEvents + 1
    /\ out' = ZeroSeries
    /\ UNCHANGED <<cfgVars, agentVars, prevRun, monitorVars, extraVars,
                   nReads, replayVars>>

Flush ==
    /\ nEvents + nReads < MaxOps
    /\ flush
    /\ nReads' = nReads + 1
    /\ out' = ZeroSeries
    /\ UNCHANGED <<cfgVars, agentVars, prevRun, monitorVars, extraVars, truth,
                   nEvents, now, replayVars>>

Rebuild(f) ==
    /\ nEvents + nReads < MaxOps
    /\ rebuild(f)
    /\ nReads' = nReads + 1
    /\ UNCHANGED <<cfgVars, agentVars, prevRun, monitorVars, extraVars, truth,
                   nEvents, now, replayVars>>

Next ==
    \/ \E f \in Flows : Count(f)
    \/ Flush
    \/ \E f \in Flows : Rebuild(f)

Spec == Init /\ [][Next]_vars

(***************************************************************************)
(* Reference quantities of a curve                                         *)
(***************************************************************************)
RECURSIVE SumOver(_, _)
SumOver(f, S) ==
    IF S = {} THEN 0
    ELSE LET x == CHOOSE y \in S : TRUE
         IN  f[x] + SumOver(f, S \ {x})

\* the detail coefficient (l, idx) of the complete curve cv
TrueDetail(cv, l, idx) ==
    SumOver([w \in DOMAIN cv |->
                IF Shr(w, l) % 2 = 0 THEN cv[w] ELSE 0 - cv[w]],
            {w \in DOMAIN cv : Shr(w, l + 1) = idx})

NonZeroDetails(cv) ==
    {d \in (0..(L - 1)) \X (0..(NumWindows - 1)) :
        /\ d[2] < NumWindows \div Pow2(d[1] + 1)
        /\ TrueDetail(cv, d[1], d[2]) # 0}

OutMatches(cv) == \A w \in DOMAIN cv : out[w] = cv[w]

\* C1: a curve with at most K non-zero detail coefficients, replayed in
\* timestamp order, flushed and rebuilt, comes back exactly.
C1_RoundTrip ==
    (phase = "done" /\ Cardinality(NonZeroDetails(curve)) <= K)
        => OutMatches(curve)

ScenarioCurve == [w \in 0..7 |-> IF w \in {2, 6} THEN 5 ELSE 0]

\* C2: with L = 3 and K = 4 the eight counts [0,0,5,0,0,0,5,0], fed in
\* order and rebuilt, come back as [0,0,5,0,0,0,5,0].
C2_Scenario ==
    (/\ L = 3 /\ K = 4 /\ feedZeros /\ curve = ScenarioCurve
     /\ phase \in {"done", "doneNoFlush"})
        => OutMatches(ScenarioCurve)

(***************************************************************************)
(* Memory sweep: the binary is rebuilt with another MEMORY_KB              *)
(* (run_sweep_isolated.sh rewrites parameter.h and recompiles)             *)
(***************************************************************************)
SweepInit ==
    /\ L = 1
    /\ K = 1
    /\ memoryKB = MEMORY_KB
    /\ windowUs = WindowSize
    /\ requestKB = MEMORY_KB
    /\ coeffs = <<>>
    /\ topK = {}
    /\ prevRun = NoRun
    /\ algorithm = "wavesketch"
    /\ resultRows = 0
    /\ ExtraInit
    /\ SchemeInit
    /\ now = 0
    /\ curve = [w \in 0..(NumWindows - 1) |-> 0]
    /\ base = 0
    /\ feedZeros = FALSE
    /\ fedN = 0
    /\ phase = "built"

Recompile(m) ==
    /\ m # memoryKB
    /\ memoryKB' = m
    /\ UNCHANGED <<L, K, requestKB, windowUs, heavy, light, truth, nEvents,
                   nReads, lastOp, admitted, out, now, replayVars, agentVars,
                   prevRun, monitorVars, extraVars>>

\* the budgets a run is asked for: --memories / --memoryKB
Memories == {64, 128, 256}

\* one run of a driver with budget m: the value is stored and printed, the
\* schemes are default-constructed and reset
Request(m) ==
    /\ m # requestKB
    /\ requestKB' = m
    /\ heavy' = [s \in 1..HeavySlots |-> EmptySlot]
    /\ light' = [r \in 1..LightRows |-> EmptyBucket]
    /\ UNCHANGED <<L, K, memoryKB, windowUs, truth, nEvents, nReads, lastOp,
                   admitted, out, now, replayVars, agentVars, prevRun,
                   monitorVars, extraVars>>

SweepNext ==
    \/ \E m \in 1..MaxMemoryKB : Recompile(m)
    \/ \E m \in Memories : Request(m)

SweepSpec == SweepInit /\ [][SweepNext]_vars

(***************************************************************************)
(* Properties of the engine                                                *)
(***************************************************************************)
AllBuckets ==
    {heavy[s].bkt : s \in 1..HeavySlots} \cup {light[r] : r \in 1..LightRows}

TotalCount(f) == SumOver(truth[f], DOMAIN truth[f])

C4_TopKBound == \A b \in AllBuckets : Len(b.D) <= K

\* a flush that had to evict: more levels than K, a store that is full
C4_Witness ==
    /\ lastOp.op = "flush"
    /\ K < L
    /\ \E s \in 1..HeavySlots :
          /\ heavy[s].key # NoFlow
          /\ Len(heavy[s].bkt.D) = K
          /\ heavy[s].bkt.c > 0

C6_ExactBudget == MEMORY(memoryKB) = memoryKB * 1024

\* C6: the table occupies the largest whole number of cell rows
\* (FULL_WIDTH * FULL_HEIGHT cells of 4 bytes) that fits the budget; it
\* equals the budget only when the budget is such a multiple.
C6_RoundedBudget ==
    LET row == FULL_WIDTH * FULL_HEIGHT * 4
    IN  /\ MEMORY(memoryKB) % row = 0
        /\ MEMORY(memoryKB) <= memoryKB * 1024
        /\ memoryKB * 1024 - MEMORY(memoryKB) < row

\* a rebuilt binary: 128 KB asked, 42 cells per bucket, 129024 bytes
C6_Witness ==
    /\ memoryKB = 128
    /\ phase = "built"
    /\ FULL_DEPTH(memoryKB) = 42
    /\ MEMORY(memoryKB) = 129024

LightEmpty ==
    \A r \in 1..LightRows :
        /\ light[r].c = 0
        /\ \A p \in DOMAIN light[r].A : light[r].A[p] = 0
        /\ \A l \in DOMAIN light[r].det : light[r].det[l].val = 0
        /\ \A p \in 1..Len(light[r].D) : light[r].D[p].val = 0

NotTracked(f) == f \notin Residents /\ (TotalCount(f) = 0 \/ f \in admitted)

C8_LightNeverUnder ==
    (lastOp.op = "rebuild" /\ lastOp.flow \notin admitted)
        => \A w \in DOMAIN out : out[w] >= truth[lastOp.flow][w]

MaxValue == 5

\* TRANSFORMATION on the two windows of one pair, the completed detail kept
ForwardPair(v1, v2) ==
    LET b1 == Transformation(EmptyBucket, 0, v1)
        b2 == Transformation(b1, 1, v2)
    IN  Compression(b2, 0, b2.det[0])

\* step 6 of RECONSTRUCTION on the approximation and the retained detail
InversePair(b) == InverseStep(b.A, ApproxCells, b.D, 0)

PairInit ==
    /\ L = 1
    /\ K = 1
    /\ memoryKB = MEMORY_KB
    /\ windowUs = WindowSize
    /\ requestKB = MEMORY_KB
    /\ coeffs = <<>>
    /\ topK = {}
    /\ prevRun = NoRun
    /\ algorithm = "wavesketch"
    /\ resultRows = 0
    /\ ExtraInit
    /\ SchemeInit
    /\ curve \in [0..1 -> 0..MaxValue]
    /\ base = 0
    /\ feedZeros = FALSE
    /\ fedN = 0
    /\ now = 0
    /\ phase = "pair"

PairForward ==
    /\ phase = "pair"
    /\ heavy' = [heavy EXCEPT ![1].bkt = ForwardPair(curve[0], curve[1])]
    /\ phase' = "forward"
    /\ UNCHANGED <<cfgVars, agentVars, prevRun, monitorVars, extraVars, light,
                   truth, nEvents, nReads, lastOp, admitted, out, now, curve,
                   base, feedZeros, fedN>>

PairInverse ==
    /\ phase = "forward"
    /\ out' = [w \in 0..(OutWindows - 1) |->
                  IF w \in 0..1 THEN InversePair(heavy[1].bkt)[w] ELSE 0]
    /\ phase' = "inverse"
    /\ UNCHANGED <<cfgVars, agentVars, prevRun, monitorVars, extraVars, heavy,
                   light, truth, nEvents, nReads, lastOp, admitted, now,
                   curve, base, feedZeros, fedN>>

PairNext == PairForward \/ PairInverse

PairSpec == PairInit /\ [][PairNext]_vars

\* C12: the forward step followed by the inverse step, with the detail
\* coefficient retained, returns the original pair of child values.
C12_InverseExact ==
    phase = "inverse" => (out[0] = curve[0] /\ out[1] = curve[1])

(***************************************************************************)
(* Top-K contents of D against the detail coefficients of the fed curve    *)
(***************************************************************************)
\* the counts the Bucket b has been given, indexed by its own window offset
FedCurve(b) ==
    LET off == (b.w0 - base) \div windowUs
    IN  [w \in 0..(NumWindows - 1) |->
            IF (w + off) \in DOMAIN curve /\ (w + off) < fedN
            THEN curve[w + off] ELSE 0]

\* positions (level, index) whose detail has been handed to Compression:
\* the completed ones while counting, the pending ones too once finalized
FinalizedDetails(b, closed) ==
    {d \in (0..(L - 1)) \X (0..(NumWindows - 1)) :
        IF closed THEN d[2] <= b.det[d[1]].idx ELSE d[2] < b.det[d[1]].idx}

TopKOfFinalized(b, closed) ==
    LET fin == FinalizedDetails(b, closed)
        cv == FedCurve(b)
        kept == {<<b.D[p].lvl, b.D[p].idx>> : p \in 1..Len(b.D)}
    IN  /\ Len(b.D) = Min2(K, Cardinality(fin))
        /\ Cardinality(kept) = Len(b.D)
        /\ \A p \in 1..Len(b.D) :
              /\ <<b.D[p].lvl, b.D[p].idx>> \in fin
              /\ b.D[p].val = TrueDetail(cv, b.D[p].lvl, b.D[p].idx)
        /\ \A d \in fin \ kept : \A p \in 1..Len(b.D) :
              ~Heavier([lvl |-> d[1], val |-> TrueDetail(cv, d[1], d[2])],
                       b.D[p])

C14_RequestedBudgetUsed ==
    [][(requestKB' # requestKB)
          => FULL_DEPTH(memoryKB') = FULL_DEPTH(requestKB')]_vars

(***************************************************************************)
(* WaveSketchAgent: per-window packet counters of one flow, analysed at    *)
(* the end of the curve by HaarTransform, SelectTopK, InverseHaarTransform *)
(* (fattree_ecn_clean.cc, fattree_benchmark.cc).  The transform scales by  *)
(* 1/sqrt(2) per level; a coefficient is kept as its integer numerator,    *)
(* the power of 1/sqrt(2) it carries being fixed by its index.             *)
(***************************************************************************)
AgentWindows == 3
CounterBits == 2
MaxAgentK == 5

\* uint32_t counters, at the width CounterBits
CounterMod == Pow2(CounterBits)

RECURSIVE NextPowerOf2(_, _)
NextPowerOf2(n, p) == IF p < n THEN NextPowerOf2(n, 2 * p) ELSE p

PaddedSize == NextPowerOf2(AgentWindows, 1)

RECURSIVE Log2(_)
Log2(n) == IF n <= 1 THEN 0 ELSE 1 + Log2(n \div 2)

\* originalCurve: the counters of the analysed windows, 0 where none exists
OriginalCurve(fd) ==
    [w \in 0..(AgentWindows - 1) |-> IF w \in DOMAIN fd THEN fd[w] ELSE 0]

\* inputVector.resize(nextPowerOf2, 0.0)
Padded(cv) ==
    [i \in 0..(PaddedSize - 1) |-> IF i \in DOMAIN cv THEN cv[i] ELSE 0]

\* number of factors 1/sqrt(2) carried by the coefficient at index i
CoefExp(i) == IF i = 0 THEN Log2(PaddedSize) ELSE Log2(PaddedSize) - Log2(i)

RECURSIVE HaarLevels(_, _)
HaarLevels(cur, currentSize) ==
    IF currentSize <= 1 THEN cur
    ELSE LET nextSize == currentSize \div 2
             tmp == [i \in DOMAIN cur |->
                        IF i < nextSize
                        THEN cur[2 * i] + cur[2 * i + 1]
                        ELSE IF i < currentSize
                             THEN cur[2 * (i - nextSize)]
                                    - cur[2 * (i - nextSize) + 1]
                             ELSE cur[i]]
         IN  HaarLevels(tmp, nextSize)

HaarTransform(inputVector) == HaarLevels(Padded(inputVector), PaddedSize)

\* magnitude of coefficient i strictly above that of coefficient j
LargerMagnitude(c, i, j) ==
    c[i] * c[i] * Pow2(CoefExp(j)) > c[j] * c[j] * Pow2(CoefExp(i))

\* the index sets std::sort may leave in the first k places: equal
\* magnitudes may come out in any order
SelectTopK_Unclamped(c, m_k) ==
    LET k == m_k
    IN  {S \in SUBSET ((DOMAIN c) \cup (0..(k - 1))) :
            /\ Cardinality(S) = k
            /\ \A i \in S \cap (DOMAIN c) : \A j \in (DOMAIN c) \ S :
                  ~LargerMagnitude(c, j, i)}
SelectTopK(c, m_k) ==
    LET k == Min2(Cardinality(DOMAIN c), m_k)
    IN  {S \in SUBSET (DOMAIN c) :
            /\ Cardinality(S) = k
            /\ \A i \in S : \A j \in (DOMAIN c) \ S :
                  ~LargerMagnitude(c, j, i)}

\* compressedCoeffs[c.index] = c.value for every retained Coeff
CompressedCoeffs_Magnitude(c, S) ==
    [i \in DOMAIN c |-> IF i \in S THEN (IF c[i] < 0 THEN 0 - c[i] ELSE c[i])
                        ELSE 0]
CompressedCoeffs(c, S) == [i \in DOMAIN c |-> IF i \in S THEN c[i] ELSE 0]

\* numerators over PaddedSize: the approximation reaching the stage of size
\* currentSize carries currentSize more factors 1/2 than the detail
RECURSIVE InverseLevels2(_, _)
InverseLevels2(cur, currentSize) ==
    IF currentSize >= PaddedSize THEN cur
    ELSE LET tmp == [i \in DOMAIN cur |->
                        IF i < 2 * currentSize
                        THEN LET approx == cur[i \div 2]
                                 detail == currentSize
                                             * cur[(i \div 2) + currentSize]
                             IN  IF i % 2 = 0 THEN approx + detail
                                 ELSE approx - detail
                        ELSE cur[i]]
         IN  InverseLevels2(tmp, 2 * currentSize)

\* currentVector.resize(originalSize) drops the padding
InverseHaarTransform_Untruncated(coefficients, originalSize) ==
    InverseLevels2(coefficients, 1)
InverseHaarTransform(coefficients, originalSize) ==
    LET full == InverseLevels2(coefficients, 1)
    IN  [w \in 0..(originalSize - 1) |-> full[w]]

AgentInit ==
    /\ L = 1
    /\ K \in 1..MaxAgentK
    /\ memoryKB = MEMORY_KB
    /\ windowUs = WindowSize
    /\ requestKB = MEMORY_KB
    /\ SchemeInit
    /\ curve = [w \in {} |-> 0]
    /\ base = 0
    /\ feedZeros = FALSE
    /\ fedN = 0
    /\ now = 0
    /\ phase = "collect"
    /\ coeffs = <<>>
    /\ topK = {}
    /\ prevRun = NoRun
    /\ algorithm = "wavesketch"
    /\ resultRows = 0
    /\ ExtraInit

\* m_flowData[flowId][windowIndex]++
OnPacketSent(windowIndex) ==
    /\ phase = "collect"
    /\ windowIndex >= now
    /\ now' = windowIndex
    /\ curve' = IF windowIndex \in DOMAIN curve
                THEN [curve EXCEPT ![windowIndex] = (@ + 1) % CounterMod]
                ELSE curve @@ (windowIndex :> 1)
    /\ UNCHANGED <<cfgVars, agentVars, prevRun, monitorVars, extraVars, heavy,
                   light, truth, nEvents, nReads, lastOp, admitted, out, base,
                   feedZeros, fedN, phase>>

CompressAndAnalyze ==
    /\ phase = "collect"
    /\ IF DOMAIN curve = {}
       THEN UNCHANGED <<coeffs, topK, out>>
       ELSE LET c == HaarTransform(OriginalCurve(curve))
            IN  \E S \in SelectTopK(c, K) :
                   /\ coeffs' = c
                   /\ topK' = S
                   /\ out' = InverseHaarTransform(CompressedCoeffs(c, S),
                                                  AgentWindows)
    /\ phase' = "analyzed"
    /\ UNCHANGED <<cfgVars, heavy, light, truth, nEvents, nReads, lastOp,
                   admitted, now, curve, base, feedZeros, fedN, prevRun,
                   monitorVars, extraVars>>

AgentNext ==
    \/ \E w \in 0..(AgentWindows - 1) : OnPacketSent(w)
    \/ CompressAndAnalyze

AgentSpec == AgentInit /\ [][AgentNext]_vars

\* C15: every value of the series reconstructed from the retained
\* coefficients of a curve of packet counts is >= 0.
C15_NonNegative ==
    phase = "analyzed" => \A w \in DOMAIN out : out[w] >= 0

(***************************************************************************)
(* Evaluation over K: the same curve is replayed, flushed and rebuilt on a *)
(* fresh scheme for each K in turn, and the results are compared           *)
(***************************************************************************)
\* the Bucket that holds the replayed flow
ReplayBucket == heavy[ContendSlot(ReplayFlow)].bkt

NextK_Down ==
    /\ phase = "done"
    /\ K > 1
    /\ prevRun' = [K |-> K, out |-> out, D |-> ReplayBucket.D]
    /\ UNCHANGED <<monitorVars, extraVars>>
    /\ K' = K - 1
    /\ heavy' = [s \in 1..HeavySlots |-> EmptySlot]
    /\ light' = [r \in 1..LightRows |-> EmptyBucket]
    /\ lastOp' = NoOp
    /\ admitted' = {}
    /\ out' = ZeroSeries
    /\ truth' = ZeroTruth
    /\ nEvents' = 0
    /\ fedN' = 0
    /\ phase' = "feed"
    /\ UNCHANGED <<L, memoryKB, requestKB, windowUs, nReads, now, curve, base,
                   feedZeros, agentVars>>
NextK ==
    /\ phase = "done"
    /\ K < MaxK
    /\ prevRun' = [K |-> K, out |-> out, D |-> ReplayBucket.D]
    /\ UNCHANGED <<monitorVars, extraVars>>
    /\ K' = K + 1
    /\ heavy' = [s \in 1..HeavySlots |-> EmptySlot]
    /\ light' = [r \in 1..LightRows |-> EmptyBucket]
    /\ lastOp' = NoOp
    /\ admitted' = {}
    /\ out' = ZeroSeries
    /\ truth' = ZeroTruth
    /\ nEvents' = 0
    /\ fedN' = 0
    /\ phase' = "feed"
    /\ UNCHANGED <<L, memoryKB, requestKB, windowUs, nReads, now, curve, base,
                   feedZeros, agentVars>>

KSweepInit == L = 2 /\ ReplayInit

KSweepNext == ReplayNext \/ NextK

KSweepSpec == KSweepInit /\ [][KSweepNext]_vars

RECURSIVE ProdOver(_, _)
ProdOver(f, S) ==
    IF S = {} THEN 1
    ELSE LET x == CHOOSE y \in S : TRUE
         IN  f[x] * ProdOver(f, S \ {x})

\* ARE(a, b) times nz * (product of the non-zero a[i]): for one curve a the
\* factor is the same for every b, so the products order as the AREs do
AREScaled(a, b) ==
    LET nz == {i \in DOMAIN a : a[i] > 0}
    IN  SumOver([i \in DOMAIN a |->
                    IF i \in nz
                    THEN Abs(a[i] - b[i]) * ProdOver(a, nz \ {i})
                    ELSE 0],
                DOMAIN a)

RetainedNested(small, large) ==
    \A p \in 1..Len(small) : \E q \in 1..Len(large) : large[q] = small[p]

CosineIsOne(a, b) ==
    LET dot == SumOver([i \in DOMAIN a |-> a[i] * b[i]], DOMAIN a)
        A2 == SumOver([i \in DOMAIN a |-> a[i] * a[i]], DOMAIN a)
        B2 == SumOver([i \in DOMAIN a |-> b[i] * b[i]], DOMAIN a)
    IN  \/ A2 = 0
        \/ B2 = 0
        \/ (dot > 0 /\ dot * dot = A2 * B2)

\* C17: a flow with counts in exactly one window, replayed, flushed and
\* rebuilt with room for all its detail coefficients, has ARE = 0 and
\* Cosine = 1.
C17_SingleWindowExact ==
    (phase = "done" /\ Cardinality(NonZero(curve)) = 1 /\ K >= L)
        => /\ AREScaled(curve, out) = 0
           /\ CosineIsOne(curve, out)

(***************************************************************************)
(* Out-of-order arrival: the engine driven with timestamps in any order    *)
(***************************************************************************)
LateCount(f) ==
    /\ nEvents + nReads < MaxOps
    /\ \A g \in 1..(f - 1) : Seen(g)
    /\ \E ts \in 0..MaxNow :
          /\ count(f, ts, 1)
          /\ truth' = Record(f, ts, 1)
          /\ now' = ts
    /\ nEvents' = nEvents + 1
    /\ out' = ZeroSeries
    /\ UNCHANGED <<cfgVars, agentVars, prevRun, monitorVars, extraVars,
                   nReads, replayVars>>

LateNext ==
    \/ \E f \in Flows : LateCount(f)
    \/ Flush
    \/ \E f \in Flows : Rebuild(f)

LateSpec == Init /\ [][LateNext]_vars

\* the count that has just been issued carried a timestamp of a window
\* before the open window i of the Bucket b it went to
IsLateFor(b, ts) ==
    /\ b.w0 > 0
    /\ ts >= b.w0
    /\ CDiv(ts - b.w0, windowUs) < b.i

\* C18: a count() for a window earlier than the open window of the flow's
\* Bucket leaves the open window as it is: i and c are unchanged.
C18_LateCountNoAdvance ==
    [][\A s \in 1..HeavySlots :
          (/\ nEvents' = nEvents + 1
           /\ heavy[s].key # NoFlow
           /\ heavy[s].key = lastOp'.flow
           /\ heavy'[s].key = heavy[s].key
           /\ IsLateFor(heavy[s].bkt, now'))
            => /\ heavy'[s].bkt.i = heavy[s].bkt.i
               /\ heavy'[s].bkt.c = heavy[s].bkt.c]_vars

C20_ClampedAtSetup == K <= PaddedSize

\* C20 (amended): every analysis retains min(m_k, number of coefficients)
\* coefficients, all of them coefficients of the curve, and yields a series
\* over the analysed windows, whatever K was requested.
C20_ClampedAtSelection ==
    (phase = "analyzed" /\ DOMAIN curve # {})
        => /\ Cardinality(topK) = Min2(K, PaddedSize)
           /\ topK \subseteq DOMAIN coeffs
           /\ DOMAIN out = 0..(AgentWindows - 1)

\* an analysis run with a K above the number of coefficients
C20_Witness ==
    /\ phase = "analyzed"
    /\ K > PaddedSize
    /\ Cardinality(topK) = PaddedSize


(***************************************************************************)
(* Packet monitor (FlowMonitorAgent of run_sweep.sh): the algorithm name   *)
(* given at start-up selects the scheme that is fed and read; every        *)
(* packet is recorded in the ground truth, and the periodic report writes  *)
(* one row per recorded flow.  Only the wavesketch scheme's state is       *)
(* modelled; a count() given to one of the other three is counted in       *)
(* nEvents.                                                                *)
(***************************************************************************)
AlgorithmNames == {"wavesketch", "fourier", "omniwindow", "persistcms"}
UnknownName == "unknown"

PacketsSeen == SumOver([f \in Flows |-> TotalCount(f)], Flows)

\* the flows the ground truth has an entry for
Recorded == {f \in Flows : TotalCount(f) > 0}

MonitorInit ==
    /\ L = 1
    /\ K = 1
    /\ memoryKB = MEMORY_KB
    /\ windowUs = WindowSize
    /\ requestKB = MEMORY_KB
    /\ coeffs = <<>>
    /\ topK = {}
    /\ prevRun = NoRun
    /\ algorithm \in AlgorithmNames \cup {UnknownName}
    /\ resultRows = 0
    /\ ExtraInit
    /\ SchemeInit
    /\ now = 0
    /\ curve = [w \in 0..(NumWindows - 1) |-> 0]
    /\ base = 0
    /\ feedZeros = FALSE
    /\ fedN = 0
    /\ phase = "events"

OnPacketReceived(f) ==
    /\ PacketsSeen + nReads < MaxOps
    /\ \A g \in 1..(f - 1) : Seen(g)
    /\ \E ts \in now..MaxNow :
          /\ truth' = Record(f, ts, 1)
          /\ now' = ts
          /\ IF algorithm = "wavesketch"
             THEN count(f, ts, 1)
             ELSE UNCHANGED <<heavy, light, lastOp, admitted>>
    /\ nEvents' = IF algorithm \in AlgorithmNames THEN nEvents + 1
                  ELSE nEvents
    /\ out' = ZeroSeries
    /\ UNCHANGED <<cfgVars, agentVars, prevRun, monitorVars, extraVars,
                   nReads, replayVars>>

\* the scheme after the rebuild() of every flow of fs, in increasing order
RECURSIVE ReconstructAll(_, _, _)
ReconstructAll(fs, hv, lt) ==
    IF fs = {} THEN [hv |-> hv, lt |-> lt, out |-> ZeroSeries]
    ELSE LET f == CHOOSE g \in fs : \A h \in fs : g <= h
             hv1 == HeavyRebuild(f, hv)
             lt1 == LightRebuild(f, hv, lt)
         IN  IF fs = {f}
             THEN [hv |-> hv1, lt |-> lt1, out |-> RebuildResult(f, hv, lt)]
             ELSE ReconstructAll(fs \ {f}, hv1, lt1)

AnalyzeAndReport ==
    /\ PacketsSeen + nReads < MaxOps
    /\ IF algorithm = "wavesketch"
       THEN LET r == ReconstructAll(Recorded, HeavyFlush, LightFlush)
            IN  /\ heavy' = r.hv
                /\ light' = r.lt
                /\ out' = r.out
                /\ lastOp' = [op |-> "flush", flow |-> NoFlow]
       ELSE /\ out' = ZeroSeries
            /\ UNCHANGED <<heavy, light, lastOp>>
    /\ resultRows' = resultRows + Cardinality(Recorded)
    /\ nReads' = nReads + 1
    /\ UNCHANGED <<cfgVars, agentVars, prevRun, algorithm, extraVars,
                   admitted, truth, nEvents, now, replayVars>>

MonitorNext ==
    \/ \E f \in Flows : OnPacketReceived(f)
    \/ AnalyzeAndReport

MonitorSpec == MonitorInit /\ [][MonitorNext]_vars

\* C21: a run started with an algorithm name that is not one of the four
\* scheme names gives no scheme a count() and writes no result row
C21_UnknownNameRejected ==
    algorithm \notin AlgorithmNames => (nEvents = 0 /\ resultRows = 0)


(***************************************************************************)
(* One flow's stream: the calls the Bucket of a single flow receives when  *)
(* a driver streams that flow's events in time order, with timestamps      *)
(* that may lie beyond the span the Bucket's arrays cover                  *)
(***************************************************************************)
StreamTimes == 5
StreamValues == {1, 2}

StreamCount ==
    /\ nEvents + nReads < MaxOps
    /\ \E ts \in now..(StreamTimes - 1), v \in StreamValues :
          /\ count(ReplayFlow, ts, v)
          /\ truth' = Record(ReplayFlow, ts, v)
          /\ now' = ts
    /\ nEvents' = nEvents + 1
    /\ out' = ZeroSeries
    /\ UNCHANGED <<cfgVars, agentVars, prevRun, monitorVars, extraVars,
                   nReads, replayVars>>

StreamNext ==
    \/ StreamCount
    \/ Flush
    \/ Rebuild(ReplayFlow)

StreamSpec == Init /\ [][StreamNext]_vars

\* the Transformation calls (window, value) of seq applied to b in order
RECURSIVE ApplyTransformations(_, _)
ApplyTransformations(b, seq) ==
    IF seq = <<>> THEN b
    ELSE ApplyTransformations(Transformation(b, Head(seq).w, Head(seq).v),
                              Tail(seq))

\* Transformation(i, c), then Transformation(j, 0) for j = i+1 .. n-1
ClosingCalls(i, c, n) ==
    [j \in 1..(n - i) |-> IF j = 1 THEN [w |-> i, v |-> c]
                          ELSE [w |-> i + j - 1, v |-> 0]]

\* the window index the count() at timestamp ts has for Bucket b
WindowIndexOf(b, ts) ==
    CDiv(ts - (IF b.w0 = 0 THEN ts ELSE b.w0), windowUs)

WideInit ==
    /\ L \in EngineLevels
    /\ K \in EngineK
    /\ memoryKB = MEMORY_KB
    /\ windowUs = 2 * WindowSize
    /\ requestKB = MEMORY_KB
    /\ coeffs = <<>>
    /\ topK = {}
    /\ prevRun = NoRun
    /\ algorithm = "wavesketch"
    /\ resultRows = 0
    /\ ExtraInit
    /\ SchemeInit
    /\ now = 0
    /\ curve = [w \in 0..(NumWindows - 1) |-> 0]
    /\ base = 0
    /\ feedZeros = FALSE
    /\ fedN = 0
    /\ phase = "events"

WideSpec == WideInit /\ [][StreamNext]_vars

\* timestamp ts lies in the open window of Bucket b, which began at
\* w0 + i * window and is one window wide
InOpenWindow(b, ts) ==
    /\ ts >= b.w0 + b.i * windowUs
    /\ ts < b.w0 + (b.i + 1) * windowUs

\* C23: a count() whose timestamp falls in the Bucket's open window only
\* adds its value to c: w0, i, A, detail_partial and D are unchanged.
C23_SameWindowOnlyAdds ==
    [][\A s \in 1..HeavySlots :
          LET b == heavy[s].bkt
              v == TotalCount(ReplayFlow)' - TotalCount(ReplayFlow)
          IN  (/\ nEvents' = nEvents + 1
               /\ truth' # truth
               /\ heavy[s].key = ReplayFlow
               /\ InOpenWindow(b, now'))
              => heavy'[s].bkt = [b EXCEPT !.c = @ + v]]_vars


MidWindow == 1

MidInit ==
    /\ L \in EngineLevels
    /\ K = MaxK
    /\ memoryKB = MEMORY_KB
    /\ windowUs = 2 * WindowSize
    /\ requestKB = MEMORY_KB
    /\ coeffs = <<>>
    /\ topK = {}
    /\ prevRun = NoRun
    /\ algorithm = "wavesketch"
    /\ resultRows = 0
    /\ ExtraInit
    /\ SchemeInit
    /\ now = MidWindow * windowUs
    /\ curve = [w \in 0..(NumWindows - 1) |-> 0]
    /\ base = 0
    /\ feedZeros = FALSE
    /\ fedN = 0
    /\ phase = "open"

\* a packet of the flow in the window under test
MidCount ==
    /\ phase \in {"open", "flushed", "resumed"}
    /\ nEvents + nReads < MaxOps - 1
    /\ \E ts \in now..((MidWindow + 1) * windowUs - 1), v \in StreamValues :
          /\ count(ReplayFlow, ts, v)
          /\ truth' = Record(ReplayFlow, ts, v)
          /\ now' = ts
    /\ nEvents' = nEvents + 1
    /\ phase' = IF phase = "open" THEN "open" ELSE "resumed"
    /\ UNCHANGED <<cfgVars, agentVars, prevRun, monitorVars, extraVars,
                   nReads, out, curve, base, feedZeros, fedN>>

\* the periodic flush(): in mid-window first, after the last packet then
MidFlush ==
    /\ \/ phase = "open" /\ nEvents > 0
       \/ phase = "resumed"
    /\ flush
    /\ nReads' = nReads + 1
    /\ phase' = IF phase = "open" THEN "flushed" ELSE "closed"
    /\ UNCHANGED <<cfgVars, agentVars, prevRun, monitorVars, extraVars, truth,
                   nEvents, out, now, curve, base, feedZeros, fedN>>

MidRebuild ==
    /\ phase = "closed"
    /\ rebuild(ReplayFlow)
    /\ nReads' = nReads + 1
    /\ phase' = "done"
    /\ UNCHANGED <<cfgVars, agentVars, prevRun, monitorVars, extraVars, truth,
                   nEvents, now, curve, base, feedZeros, fedN>>

MidNext == MidCount \/ MidFlush \/ MidRebuild

MidSpec == MidInit /\ [][MidNext]_vars

DetailValues == -2..2
DetailIndices == 0..1

CompressInit ==
    /\ L = 3
    /\ K \in EngineK
    /\ memoryKB = MEMORY_KB
    /\ windowUs = WindowSize
    /\ requestKB = MEMORY_KB
    /\ coeffs = <<>>
    /\ topK = {}
    /\ prevRun = NoRun
    /\ algorithm = "wavesketch"
    /\ resultRows = 0
    /\ ExtraInit
    /\ SchemeInit
    /\ now = 0
    /\ curve = [w \in 0..(NumWindows - 1) |-> 0]
    /\ base = 0
    /\ feedZeros = FALSE
    /\ fedN = 0
    /\ phase = "compress"

Compress ==
    /\ phase = "compress"
    /\ \E l \in 0..(L - 1), k \in DetailIndices, x \in DetailValues :
          /\ heavy' = [heavy EXCEPT ![1].bkt =
                          Compression(@, l, [idx |-> k, val |-> x])]
          /\ lastOp' = [op |-> "compression", flow |-> NoFlow,
                        lvl |-> l, idx |-> k, val |-> x]
    /\ UNCHANGED <<cfgVars, agentVars, prevRun, monitorVars, extraVars, light,
                   truth, nEvents, nReads, admitted, out, now, replayVars>>

CompressSpec == CompressInit /\ [][Compress]_vars

\* weighted magnitude (1/sqrt(2))^lvl * |val|, squared and scaled by 2^L
WeightSq(d) == d.val * d.val * Pow2(L - d.lvl)

CountIn(D, x) == Cardinality({q \in 1..Len(D) : D[q] = x})

\* C27: when D holds K entries, a finalized coefficient whose weighted
\* magnitude is equal to or smaller than the current minimum leaves D
\* unchanged; a strictly larger one replaces the minimum, exactly that one.
C27_OnlyLargerReplacesMin ==
    [][LET D == heavy[1].bkt.D
           Dn == heavy'[1].bkt.D
           e == [lvl |-> lastOp'.lvl, idx |-> lastOp'.idx,
                 val |-> lastOp'.val]
           IsMin(p) == \A q \in 1..Len(D) : WeightSq(D[p]) <= WeightSq(D[q])
       IN  (lastOp'.op = "compression" /\ Len(D) = K)
           => IF \E p \in 1..Len(D) : IsMin(p) /\ WeightSq(e) <= WeightSq(D[p])
              THEN Dn = D
              ELSE /\ Len(Dn) = K
                   /\ \E p \in 1..Len(D) :
                         /\ IsMin(p)
                         /\ \A x \in {D[q] : q \in 1..Len(D)} \cup {e} :
                               CountIn(Dn, x) = CountIn(D, x)
                                   - (IF x = D[p] THEN 1 ELSE 0)
                                   + (IF x = e THEN 1 ELSE 0)]_vars

\* a full D has just turned down a coefficient of the minimum's weight
\* that sits on another level
C27_Witness ==
    /\ lastOp.op = "compression"
    /\ Len(heavy[1].bkt.D) = K
    /\ \E p \in 1..K :
          LET m == heavy[1].bkt.D[p]
          IN  /\ \A q \in 1..K : WeightSq(m) <= WeightSq(heavy[1].bkt.D[q])
              /\ WeightSq(m) = lastOp.val * lastOp.val * Pow2(L - lastOp.lvl)
              /\ m.lvl # lastOp.lvl
              /\ m.val # 0
    /\ \A q \in 1..K :
          heavy[1].bkt.D[q] # [lvl |-> lastOp.lvl, idx |-> lastOp.idx,
                               val |-> lastOp.val]


\* C28: the w0 of a Bucket is set by the flow's first count() and never
\* changes afterwards, also when the first event's timestamp is 0.
C28_StartTimeFixed ==
    [][\A s \in 1..HeavySlots :
          (heavy[s].key # NoFlow /\ heavy'[s].key = heavy[s].key)
          => heavy'[s].bkt.w0 = heavy[s].bkt.w0]_vars


\* the window the drivers' ground truth files timestamp ts under
TruthWindow(ts) == ts \div windowUs

\* C29: two successive events of a flow share the Bucket's open window
\* exactly when the ground truth files them under the same window (here on
\* Buckets whose w0 is not 0, `now` being the previous event's timestamp).
C29_WindowsAgreeWithTruth ==
    [][\A s \in 1..HeavySlots :
          (/\ nEvents' = nEvents + 1
           /\ heavy[s].key = ReplayFlow
           /\ heavy[s].bkt.w0 # 0)
          => (TruthWindow(now') = TruthWindow(now)
                 <=> heavy'[s].bkt.i = heavy[s].bkt.i)]_vars


\* C30: no count() writes outside a Bucket's arrays: the approximation
\* position i >> L it writes to is a position of A, however late the
\* event's timestamp is relative to w0.
C30_CountStaysInA ==
    [][\A s \in 1..HeavySlots :
          (/\ nEvents' = nEvents + 1
           /\ heavy[s].key = ReplayFlow
           /\ ~heavy[s].bkt.oob)
          => ~heavy'[s].bkt.oob]_vars

(***************************************************************************)
(* Periodic analysis: the measurement agent whose CompressAndAnalyze       *)
(* re-schedules itself every CURVE_DURATION_MS and analyses the windows    *)
(* between the previous analysis boundary and the current one              *)
(***************************************************************************)
\* CURVE_DURATION_MS in microseconds, and the time of Simulator::Stop
CurveDurationUs == 4
MaxSimTime == 12

\* everything of the scheme and of the other drivers, unused here
SchemeUnused ==
    /\ L = 1
    /\ K = 1
    /\ memoryKB = MEMORY_KB
    /\ requestKB = MEMORY_KB
    /\ SchemeInit
    /\ base = 0
    /\ feedZeros = FALSE
    /\ fedN = 0
    /\ coeffs = <<>>
    /\ topK = {}
    /\ prevRun = NoRun
    /\ algorithm = "wavesketch"
    /\ resultRows = 0

schemeVars == <<L, K, memoryKB, requestKB, heavy, light, truth, nReads,
                lastOp, admitted, base, feedZeros, fedN, coeffs, topK,
                prevRun, algorithm, resultRows>>

\* window widths the agent is set up with: below, not dividing and above the
\* curve duration
PeriodWindows == {WindowSize, 3 * WindowSize, 6 * WindowSize}

\* trafficStartTime
StartTimes == {0, 1}

\* the windows that begin before the simulation stops
SimWindows == 0..(MaxSimTime \div windowUs)

PeriodInit ==
    /\ SchemeUnused
    /\ windowUs \in PeriodWindows
    /\ now = 0
    /\ curve = [w \in {} |-> 0]
    /\ phase = "collect"
    /\ m_lastProcessedTimeUs = 0
    /\ \E trafficStartTime \in StartTimes :
          pending = <<trafficStartTime + CurveDurationUs>>
    /\ analysed = [w \in SimWindows |-> 0]
    /\ m_flowRates = <<>>
    /\ FeedIdle
    /\ RecallIdle

\* the simulator's clock moves on when no event is due
PeriodTick ==
    /\ now < MaxSimTime
    /\ \A e \in DOMAIN pending : pending[e] > now
    /\ now' = now + 1
    /\ UNCHANGED <<schemeVars, windowUs, nEvents, out, curve, phase, schedVars,
                   feedVars, recallVars>>

\* m_flowData[flowId][currentTimeUs / m_windowUs]++
PeriodicOnPacketSent ==
    /\ nEvents < MaxOps
    /\ LET windowIndex == now \div windowUs
       IN  curve' = IF windowIndex \in DOMAIN curve
                    THEN [curve EXCEPT ![windowIndex] = (@ + 1) % CounterMod]
                    ELSE curve @@ (windowIndex :> 1)
    /\ nEvents' = nEvents + 1
    /\ UNCHANGED <<schemeVars, windowUs, now, out, phase, schedVars, feedVars,
                   recallVars>>

AnalysisBoundaryUs(currentTimeUs) ==
    (currentTimeUs \div CurveDurationUs) * CurveDurationUs

StartWindow_Ceil(lastProcessedTimeUs) ==
    (lastProcessedTimeUs + windowUs - 1) \div windowUs
StartWindow(lastProcessedTimeUs) ==
    lastProcessedTimeUs \div windowUs

\* the event being run leaves the queue and
\* Simulator::Schedule(MilliSeconds(CURVE_DURATION_MS), ...) adds the next
Reschedule_Dropped(queue, currentTimeUs) ==
    Tail(queue)
Reschedule(queue, currentTimeUs) ==
    Append(Tail(queue), currentTimeUs + CurveDurationUs)

\* originalCurve of the flow over the windows [startWindow, endWindow)
WindowCurve(startWindow, numWindows) ==
    [w \in 0..(numWindows - 1) |->
        IF startWindow + w \in DOMAIN curve THEN curve[startWindow + w]
        ELSE 0]

PeriodicCompressAndAnalyze ==
    /\ pending # <<>>
    /\ Head(pending) = now
    /\ LET analysisBoundaryUs == AnalysisBoundaryUs(now)
           startWindow == StartWindow(m_lastProcessedTimeUs)
           endWindow == analysisBoundaryUs \div windowUs
           numWindows == endWindow - startWindow
       IN  IF analysisBoundaryUs <= m_lastProcessedTimeUs \/ numWindows = 0
           THEN UNCHANGED <<m_lastProcessedTimeUs, analysed, out>>
           ELSE /\ out' = WindowCurve(startWindow, numWindows)
                /\ analysed' =
                      [w \in DOMAIN analysed |->
                          IF startWindow <= w /\ w < startWindow + numWindows
                          THEN analysed[w] + 1 ELSE analysed[w]]
                /\ m_lastProcessedTimeUs' = analysisBoundaryUs
    /\ pending' = Reschedule(pending, now)
    /\ UNCHANGED <<schemeVars, windowUs, nEvents, now, curve, phase,
                   m_flowRates, feedVars, recallVars>>

PeriodNext ==
    \/ PeriodTick
    \/ PeriodicOnPacketSent
    \/ PeriodicCompressAndAnalyze

PeriodSpec == PeriodInit /\ [][PeriodNext]_vars

\* the simulator runs every event that is due before Simulator::Stop
PeriodFairSpec ==
    /\ PeriodSpec
    /\ WF_vars(PeriodTick)
    /\ WF_vars(PeriodicCompressAndAnalyze)

\* C31: m_lastProcessedTimeUs never decreases, and every window index below
\* the latest analysis boundary has been analysed by exactly one run, every
\* other window by none: the analysed ranges are contiguous and disjoint.
C31_RangesContiguous ==
    /\ [](\A w \in DOMAIN analysed :
            analysed[w] =
               IF w < m_lastProcessedTimeUs \div windowUs THEN 1 ELSE 0)
    /\ [][m_lastProcessedTimeUs' >= m_lastProcessedTimeUs]_vars

\* two runs have analysed windows whose width does not divide the period
C31_Witness ==
    /\ CurveDurationUs % windowUs # 0
    /\ windowUs < CurveDurationUs
    /\ m_lastProcessedTimeUs >= 2 * CurveDurationUs
    /\ DOMAIN curve # {}

\* C32: from the first scheduled call on exactly one CompressAndAnalyze
\* event is pending; every execution, whichever path it takes, leaves
\* exactly the event due one period later; and every event due before the
\* simulation stops is followed by the next one.
C32_OneEventPending ==
    /\ [](Len(pending) = 1)
    /\ [][pending' # pending
            => pending' = <<now + CurveDurationUs>>]_vars
    /\ \A d \in 1..MaxSimTime :
          (pending = <<d>>) ~> (pending = <<d + CurveDurationUs>>)

\* an execution that analysed nothing (no whole window since the previous
\* boundary) has re-scheduled itself
C32_Witness ==
    /\ windowUs > CurveDurationUs
    /\ m_lastProcessedTimeUs = 0
    /\ pending = <<2 * CurveDurationUs>>

(***************************************************************************)
(* Offline evaluator, call by call: the packet file is read into per-window*)
(* counts, the scheme is reset, fed in the input mode of the run, flushed  *)
(* and rebuilt (offline_evaluator.cpp, main)                               *)
(***************************************************************************)
\* largest number of packets in the packet file
MaxPackets == 3

InputModes == {"windowed", "perPacket", "streaming"}

\* the packet file: timestamps of the flow's packets, in file order
PacketFiles ==
    UNION {[1..n -> 0..(EventTimes - 1)] : n \in 1..MaxPackets}

\* flowData[fid][tus / windowUs]++ over the whole file
FlowData ==
    [w \in {input[p] \div windowUs : p \in DOMAIN input} |->
        Cardinality({p \in DOMAIN input : input[p] \div windowUs = w})]

\* the n-th entry of the std::map, which iterates in key order
NthWindow(n) ==
    CHOOSE w \in DOMAIN FlowData :
        Cardinality({u \in DOMAIN FlowData : u < w}) = n - 1

\* events: one (win * windowUs, count) per window of the flow
WindowEvents ==
    [n \in 1..Cardinality(DOMAIN FlowData) |->
        [t |-> NthWindow(n) * windowUs, c |-> FlowData[NthWindow(n)]]]

\* sort(..., a.t < b.t), as an insertion sort
RECURSIVE InsertByTime(_, _)
InsertByTime(sorted, e) ==
    IF sorted = <<>> THEN <<e>>
    ELSE IF e.t < Head(sorted).t THEN <<e>> \o sorted
    ELSE <<Head(sorted)>> \o InsertByTime(Tail(sorted), e)

RECURSIVE SortByTime(_)
SortByTime(events) ==
    IF events = <<>> THEN <<>>
    ELSE InsertByTime(SortByTime(Tail(events)), Head(events))

\* perPacket: cnt packets of one window, spread at winStart + (i + 1) * step
PacketsOf(e) ==
    LET step == windowUs \div (e.c + 1)
    IN  [i \in 1..e.c |-> [t |-> e.t + i * step, c |-> 1]]

RECURSIVE Expand(_, _)
Expand(events, perPacket) ==
    IF events = <<>> THEN <<>>
    ELSE (IF perPacket /\ Head(events).c > 0
          THEN PacketsOf(Head(events)) ELSE <<Head(events)>>)
         \o Expand(Tail(events), perPacket)

\* the count() calls feedCounts issues, in the order it issues them
FeedOrder ==
    IF mode = "streaming"
    THEN [p \in DOMAIN input |-> [t |-> input[p], c |-> 1]]
    ELSE SortByTime(Expand(SortByTime(WindowEvents), mode = "perPacket"))

EvalInit ==
    /\ L = 2
    /\ K = 2
    /\ memoryKB = MEMORY_KB
    /\ requestKB = MEMORY_KB
    /\ windowUs \in {WindowSize, 2 * WindowSize}
    /\ SchemeInit
    /\ curve = [w \in {} |-> 0]
    /\ base = 0
    /\ feedZeros = FALSE
    /\ fedN = 0
    /\ now = 0
    /\ phase = "feed"
    /\ coeffs = <<>>
    /\ topK = {}
    /\ prevRun = NoRun
    /\ algorithm = "wavesketch"
    /\ resultRows = 0
    /\ SchedIdle
    /\ mode \in InputModes
    /\ input \in PacketFiles
    /\ RecallIdle

\* s.count(ft, t, c) for the next event
EvalCount ==
    /\ phase = "feed"
    /\ fedN < Len(FeedOrder)
    /\ LET e == FeedOrder[fedN + 1]
       IN  /\ count(ReplayFlow, e.t, e.c)
           /\ now' = e.t
    /\ fedN' = fedN + 1
    /\ nEvents' = nEvents + 1
    /\ UNCHANGED <<cfgVars, agentVars, prevRun, monitorVars, extraVars, truth,
                   nReads, out, curve, base, feedZeros, phase>>

\* s.flush() once every event has been fed
EvalFlush ==
    /\ phase = "feed"
    /\ fedN = Len(FeedOrder)
    /\ flush
    /\ nReads' = nReads + 1
    /\ phase' = "flushed"
    /\ UNCHANGED <<cfgVars, agentVars, prevRun, monitorVars, extraVars, truth,
                   nEvents, out, now, curve, base, feedZeros, fedN>>

\* streaming: the input cannot be opened again and feedCounts returns
EvalOpenFails ==
    /\ phase = "feed"
    /\ mode = "streaming"
    /\ fedN = 0
    /\ phase' = "unflushed"
    /\ UNCHANGED <<cfgVars, agentVars, prevRun, monitorVars, extraVars, heavy,
                   light, truth, nEvents, nReads, lastOp, admitted, out, now,
                   curve, base, feedZeros, fedN>>

\* reconstructed = walg.rebuild(dict), whatever feedCounts did
EvalRebuild ==
    /\ phase \in {"flushed", "unflushed"}
    /\ rebuild(ReplayFlow)
    /\ nReads' = nReads + 1
    /\ phase' = "done"
    /\ UNCHANGED <<cfgVars, agentVars, prevRun, monitorVars, extraVars, truth,
                   nEvents, now, curve, base, feedZeros, fedN>>

EvalNext ==
    \/ EvalCount
    \/ EvalFlush
    \/ EvalOpenFails
    \/ EvalRebuild

EvalSpec == EvalInit /\ [][EvalNext]_vars

\* C33: every rebuild() directly follows a flush() or another rebuild() of
\* the same scheme, so a flush() precedes it with no count() in between.
C33_FlushBeforeRebuild ==
    [][(lastOp'.op = "rebuild" /\ nReads' > nReads)
          => lastOp.op \in {"flush", "rebuild"}]_vars

\* C34: the timestamp of every count() call is at least the timestamp of
\* the flow's previous count() call.
C34_TimestampsNonDecreasing ==
    [][(nEvents' > nEvents /\ nEvents > 0) => now' >= now]_vars

(***************************************************************************)
(* WaveSketchAgent: the transform pair and the selection, on the analysed  *)
(* curve                                                                   *)
(***************************************************************************)
\* C35: when no coefficient is dropped, the series the inverse transform
\* returns has exactly the curve's length and equals the curve (as
\* numerators over PaddedSize), the curve having been zero-padded when its
\* length is not a power of two.
C35_RoundTrip ==
    (phase = "analyzed" /\ DOMAIN curve # {} /\ topK = DOMAIN coeffs)
        => /\ DOMAIN out = 0..(AgentWindows - 1)
           /\ \A w \in DOMAIN out :
                 out[w] = PaddedSize * OriginalCurve(curve)[w]

\* a curve with packets in its last window, analysed with every
\* coefficient kept
C35_Witness ==
    /\ phase = "analyzed"
    /\ topK = DOMAIN coeffs
    /\ (AgentWindows - 1) \in DOMAIN curve
    /\ Cardinality(DOMAIN curve) >= 2

\* C36: the selection holds min(K, n) of the n coefficients, none omitted
\* is larger in magnitude than one selected, and each selected coefficient
\* enters the reconstruction with its own value at its own index.
C36_TopKSelection ==
    (phase = "analyzed" /\ DOMAIN curve # {})
        => /\ Cardinality(topK) = Min2(K, Cardinality(DOMAIN coeffs))
           /\ \A i \in topK : \A j \in (DOMAIN coeffs) \ topK :
                 ~LargerMagnitude(coeffs, j, i)
           /\ out = InverseHaarTransform(
                       [i \in DOMAIN coeffs |->
                           IF i \in topK THEN coeffs[i] ELSE 0],
                       AgentWindows)

\* a selection that omits a non-zero coefficient and keeps a negative one
C36_Witness ==
    /\ phase = "analyzed"
    /\ \E j \in (DOMAIN coeffs) \ topK : coeffs[j] # 0
    /\ \E i \in topK : coeffs[i] < 0

(***************************************************************************)
(* Buffer-based agent: each flow's counters are kept in a vector indexed   *)
(* by window; the periodic analysis takes the last NUM_WINDOWS_PER_CURVE   *)
(* windows out of it and erases what it has passed                         *)
(***************************************************************************)
\* NUM_WINDOWS_PER_CURVE = (TOTAL_MONITOR_TIME_MS * 1000) / WAVE_WINDOW_US
NumWindowsPerCurve == CurveDurationUs \div windowUs

\* the packets the flow really sent in windows [startWindow, startWindow + n)
SentCurve(startWindow, n) == WindowCurve(startWindow, n)

BufferInit ==
    /\ SchemeUnused
    /\ windowUs = 2 * WindowSize
    /\ now = 0
    /\ curve = [w \in {} |-> 0]
    /\ phase = "collect"
    /\ m_lastProcessedTimeUs = 0
    /\ pending = <<CurveDurationUs>>
    /\ analysed = <<>>
    /\ m_flowRates = <<>>
    /\ FeedIdle
    /\ RecallIdle

\* rateBuffer.resize(windowIndex + 1, 0) when the index is past the end
Resized(rateBuffer, windowIndex) ==
    IF windowIndex >= Len(rateBuffer)
    THEN rateBuffer \o [p \in 1..(windowIndex + 1 - Len(rateBuffer)) |-> 0]
    ELSE rateBuffer

\* rateBuffer[windowIndex]++ for the packet's flow; curve keeps what was
\* sent in each absolute window, in a counter of the same width
BufferOnPacketSent ==
    /\ nEvents < MaxOps
    /\ LET windowIndex == now \div windowUs
           rateBuffer == IF ReplayFlow \in DOMAIN m_flowRates
                         THEN m_flowRates[ReplayFlow] ELSE <<>>
           grown == Resized(rateBuffer, windowIndex)
       IN  /\ m_flowRates' =
                 (ReplayFlow :> [grown EXCEPT ![windowIndex + 1] =
                                    (@ + 1) % CounterMod])
           /\ curve' = IF windowIndex \in DOMAIN curve
                       THEN [curve EXCEPT ![windowIndex] =
                                (@ + 1) % CounterMod]
                       ELSE curve @@ (windowIndex :> 1)
    /\ nEvents' = nEvents + 1
    /\ UNCHANGED <<schemeVars, windowUs, now, out, phase,
                   m_lastProcessedTimeUs, pending, analysed, feedVars,
                   recallVars>>

TargetWindowIndex(currentTimeUs) ==
    ((currentTimeUs \div windowUs) \div NumWindowsPerCurve)
        * NumWindowsPerCurve

\* the flow's buffer reaches the target window: it is analysed
Reaches(rates, targetWindowIndex) ==
    /\ ReplayFlow \in DOMAIN rates
    /\ Len(rates[ReplayFlow]) >= targetWindowIndex

BufferCompressAndAnalyze ==
    /\ pending # <<>>
    /\ Head(pending) = now
    /\ LET targetWindowIndex == TargetWindowIndex(now)
           startWindow == targetWindowIndex - NumWindowsPerCurve
       IN  IF targetWindowIndex >= NumWindowsPerCurve
              /\ Reaches(m_flowRates, targetWindowIndex)
           THEN LET fullBuffer == m_flowRates[ReplayFlow]
                    rest == SubSeq(fullBuffer, targetWindowIndex + 1,
                                   Len(fullBuffer))
                IN  /\ out' = [w \in 0..(NumWindowsPerCurve - 1) |->
                                  fullBuffer[startWindow + w + 1]]
                    /\ m_flowRates' = IF rest = <<>> THEN <<>>
                                      ELSE (ReplayFlow :> rest)
           ELSE UNCHANGED <<out, m_flowRates>>
    /\ pending' = Reschedule(pending, now)
    /\ UNCHANGED <<schemeVars, windowUs, nEvents, now, curve, phase,
                   m_lastProcessedTimeUs, analysed, feedVars, recallVars>>

BufferNext ==
    \/ PeriodTick
    \/ BufferOnPacketSent
    \/ BufferCompressAndAnalyze

BufferSpec == BufferInit /\ [][BufferNext]_vars

\* C37: an analysis that takes a flow's curve out of its buffer takes the
\* packet counts of the absolute windows
\* [targetWindowIndex - NUM_WINDOWS_PER_CURVE, targetWindowIndex): every
\* packet is in the position of the window it was sent in, also after
\* earlier windows have been erased.
C37_OwnWindowPositions ==
    [][(/\ pending' # pending
        /\ TargetWindowIndex(now) >= NumWindowsPerCurve
        /\ Reaches(m_flowRates, TargetWindowIndex(now)))
          => out' = SentCurve(TargetWindowIndex(now) - NumWindowsPerCurve,
                              NumWindowsPerCurve)]_vars

(***************************************************************************)
(* Congestion recall (fattree_k4_replay.cc): the tracker keeps the largest *)
(* queue occupancy seen in each window, the flow logger the ECN marks of   *)
(* each window, and ComputeRecall counts the congested windows that were   *)
(* marked                                                                  *)
(***************************************************************************)
\* RED_MAX_TH_BYTES, the threshold the tracker is constructed with
ThresholdBytes == 2

QueueBytes == 0..(ThresholdBytes + 1)

RecallInit ==
    /\ SchemeUnused
    /\ windowUs = WindowSize
    /\ now = 0
    /\ curve = [w \in {} |-> 0]
    /\ phase = "run"
    /\ SchedIdle
    /\ FeedIdle
    /\ RecallIdle

\* Simulator::Now() moves on
RecallTick ==
    /\ phase = "run"
    /\ now < EventTimes - 1
    /\ now' = now + 1
    /\ UNCHANGED <<schemeVars, windowUs, nEvents, out, curve, phase, schedVars,
                   feedVars, recallVars>>

\* CongestionEventTracker::Record: stat = max(stat, bytes) for the window
TrackerRecord(bytes) ==
    /\ phase = "run"
    /\ nEvents < MaxOps
    /\ LET windowIndex == now \div windowUs
           stat == IF windowIndex \in DOMAIN m_groundTruth
                   THEN m_groundTruth[windowIndex] ELSE 0
       IN  m_groundTruth' =
              (windowIndex :> (IF bytes > stat THEN bytes ELSE stat))
                 @@ m_groundTruth
    /\ nEvents' = nEvents + 1
    /\ UNCHANGED <<schemeVars, windowUs, now, out, curve, phase, schedVars,
                   feedVars, m_windows, metrics>>

\* FlowRateLogger::Record: the window's entry comes to exist
LoggerRecord ==
    /\ phase = "run"
    /\ nEvents < MaxOps
    /\ LET windowIndex == now \div windowUs
       IN  m_windows' = m_windows @@ (windowIndex :> 0)
    /\ nEvents' = nEvents + 1
    /\ UNCHANGED <<schemeVars, windowUs, now, out, curve, phase, schedVars,
                   feedVars, m_groundTruth, metrics>>

\* FlowRateLogger::RecordEcnMark: entry.ecnMarks += 1
RecordEcnMark ==
    /\ phase = "run"
    /\ nEvents < MaxOps
    /\ LET windowIndex == now \div windowUs
           marks == IF windowIndex \in DOMAIN m_windows
                    THEN m_windows[windowIndex] ELSE 0
       IN  m_windows' =
              (windowIndex :> ((marks + 1) % CounterMod)) @@ m_windows
    /\ nEvents' = nEvents + 1
    /\ UNCHANGED <<schemeVars, windowUs, now, out, curve, phase, schedVars,
                   feedVars, m_groundTruth, metrics>>

\* entry.second <= thresholdBytes is skipped
Congested_AtThreshold(bytes) == bytes >= ThresholdBytes
Congested(bytes) == bytes > ThresholdBytes

\* the loop over groundTruth, and recall = captured / total when total > 0
RecallOf(groundTruth, windows) ==
    LET congested == {w \in DOMAIN groundTruth : Congested(groundTruth[w])}
        captured == {w \in congested :
                        w \in DOMAIN windows /\ windows[w] > 0}
        total == Cardinality(congested)
    IN  [totalCongestionWindows |-> total,
         capturedWindows |-> Cardinality(captured),
         recallNum |-> IF total > 0 THEN Cardinality(captured) ELSE 0,
         recallDen |-> IF total > 0 THEN total ELSE 1]

\* main, after the run: metrics = g_flowLogger->ComputeRecall(...)
ComputeRecall ==
    /\ phase = "run"
    /\ metrics' = RecallOf(m_groundTruth, m_windows)
    /\ phase' = "reported"
    /\ UNCHANGED <<schemeVars, windowUs, nEvents, now, out, curve, schedVars,
                   feedVars, m_groundTruth, m_windows>>

RecallNext ==
    \/ RecallTick
    \/ \E bytes \in QueueBytes : TrackerRecord(bytes)
    \/ LoggerRecord
    \/ RecordEcnMark
    \/ ComputeRecall

RecallSpec == RecallInit /\ [][RecallNext]_vars

\* C38: what ComputeRecall returns has capturedWindows <=
\* totalCongestionWindows and 0 <= recall <= 1; the total is the number of
\* windows whose largest recorded queue occupancy exceeds the threshold,
\* every captured window is one of them with at least one ECN mark, and
\* recall is 0 when no window is congested.
C38_RecallWithinBounds ==
    phase = "reported"
        => /\ metrics.capturedWindows <= metrics.totalCongestionWindows
           /\ 0 <= metrics.recallNum
           /\ metrics.recallNum <= metrics.recallDen
           /\ metrics.recallDen > 0
           /\ metrics.totalCongestionWindows =
                 Cardinality({w \in DOMAIN m_groundTruth :
                                 m_groundTruth[w] > ThresholdBytes})
           /\ metrics.capturedWindows <=
                 Cardinality({w \in DOMAIN m_groundTruth :
                                 /\ m_groundTruth[w] > ThresholdBytes
                                 /\ w \in DOMAIN m_windows
                                 /\ m_windows[w] > 0})
           /\ (metrics.totalCongestionWindows = 0 => metrics.recallNum = 0)

\* a report over a window above the threshold that was marked, one above it
\* that was not, and one exactly at the threshold that was marked
C38_Witness ==
    /\ phase = "reported"
    /\ metrics.totalCongestionWindows = 2
    /\ metrics.capturedWindows = 1
    /\ \E w \in DOMAIN m_groundTruth :
          /\ m_groundTruth[w] = ThresholdBytes
          /\ w \in DOMAIN m_windows
          /\ m_windows[w] > 0

=============================================================================
